---- MODULE Spec2Model ----
(***************************************************************************)
(* Model of homie-controller/src/values.rs: the typed value layer of the   *)
(* Homie controller (datatype/format validation, format parsing, payload   *)
(* parsing and serialisation).                                             *)
(*                                                                         *)
(* Text is a sequence of one-character strings.  Every operation of the    *)
(* file is a pure function and is modelled as an operator; the state       *)
(* machine records one caller's use of the layer: the call it made, the    *)
(* arguments, the result, and the value it holds while it serialises that  *)
(* value and parses the text back.                                         *)
(***************************************************************************)
EXTENDS Integers, Sequences, FiniteSets, TLC

VARIABLES op, ty, arg, res, held, rt

vars == <<op, ty, arg, res, held, rt>>

(***************************************************************************)
(* Bounds of the model.                                                    *)
(***************************************************************************)
\* largest number of separator-delimited fields of a generated text
MaxFields == 4

(***************************************************************************)
(* Results and errors.                                                     *)
(***************************************************************************)
Ok(v) == [kind |-> "Ok", val |-> v]

Err(e) == [kind |-> "Err", err |-> e]

\* a failed assert!: the calling operation panics
Panic == [kind |-> "Panic"]

Unknown == [kind |-> "Unknown"]

WrongDatatype(expected, actual) ==
  [kind |-> "WrongDatatype", expected |-> expected, actual |-> actual]

WrongFormat(format) == [kind |-> "WrongFormat", format |-> format]

ParseFailed(value, datatype) ==
  [kind |-> "ParseFailed", value |-> value, datatype |-> datatype]

ParseColorError == [kind |-> "ParseColorError"]

ParseEnumError == [kind |-> "ParseEnumError"]

\* the error of the standard integer/float/bool parsers
ParseNumError == [kind |-> "ParseNumError"]

\* impl From<ParseIntError> for ParseColorError
From_ParseIntError(e) == ParseColorError

None == [some |-> FALSE]

Some(x) == [some |-> TRUE, v |-> x]

Unit == "()"

(***************************************************************************)
(* Text helpers: str::split, str::splitn, decimal digits.                  *)
(***************************************************************************)
Digits == <<"0", "1", "2", "3", "4", "5", "6", "7", "8", "9">>

IsDigit(c) == \E d \in 1..10 : Digits[d] = c

DigitVal(c) == (CHOOSE d \in 1..10 : Digits[d] = c) - 1

AllDigits(s) == \A i \in 1..Len(s) : IsDigit(s[i])

Contains(s, c) == \E i \in 1..Len(s) : s[i] = c

\* index of the first occurrence of c in s (s contains c)
Find(s, c) == CHOOSE i \in 1..Len(s) : s[i] = c /\ \A j \in 1..(i - 1) : s[j] # c

Tail_from(s, i) == SubSeq(s, i, Len(s))

\* s.split(c): always at least one part
RECURSIVE split(_, _)
split(s, c) ==
  IF ~Contains(s, c) THEN <<s>>
  ELSE <<SubSeq(s, 1, Find(s, c) - 1)>> \o split(Tail_from(s, Find(s, c) + 1), c)

\* splitn written as split(c).take(n): the remainder is dropped
splitn_take(n, s, c) ==
  SubSeq(split(s, c), 1, IF Len(split(s, c)) < n THEN Len(split(s, c)) ELSE n)

\* s.splitn(n, c): at most n parts, the last one holds the remainder
RECURSIVE splitn(_, _, _)
splitn(n, s, c) ==
  IF n = 0 THEN <<>>
  ELSE IF n = 1 \/ ~Contains(s, c) THEN <<s>>
  ELSE <<SubSeq(s, 1, Find(s, c) - 1)>> \o splitn(n - 1, Tail_from(s, Find(s, c) + 1), c)

\* the concatenation of parts with sep between consecutive parts
RECURSIVE Join(_, _)
Join(parts, sep) ==
  IF Len(parts) = 0 THEN <<>>
  ELSE IF Len(parts) = 1 THEN parts[1]
  ELSE parts[1] \o <<sep>> \o Join(Tail(parts), sep)

(***************************************************************************)
(* The standard parsers and formatters the file calls through              *)
(* str::parse and write!: unsigned integers of a given width, i64, f64,    *)
(* bool.                                                                   *)
(***************************************************************************)
U8Max == 255

U16Max == 65535

\* checked accumulation of decimal digits: result.checked_mul(10)?.checked_add(d)?
\* -1 stands for the overflow error
RECURSIVE acc_digits(_, _, _)
acc_digits(s, r, max) ==
  IF s = <<>> THEN r
  ELSE IF r * 10 > max THEN -1
  ELSE IF r * 10 + DigitVal(Head(s)) > max THEN -1
  ELSE acc_digits(Tail(s), r * 10 + DigitVal(Head(s)), max)

\* <u8 | u16 as FromStr>::from_str: an optional "+", then digits; no "-"
parse_unsigned(s, max) ==
  IF s = <<>> THEN Err(ParseNumError)
  ELSE IF s[1] \in {"+", "-"} /\ Len(s) = 1 THEN Err(ParseNumError)
  ELSE LET digits == IF s[1] = "+" THEN Tail(s) ELSE s IN
       IF ~AllDigits(digits) THEN Err(ParseNumError)
       ELSE IF acc_digits(digits, 0, max) = -1 THEN Err(ParseNumError)
       ELSE Ok(acc_digits(digits, 0, max))

\* Display of an unsigned integer: decimal, no sign, no leading zeros
RECURSIVE Ser(_)
Ser(n) ==
  IF n < 10 THEN <<Digits[n + 1]>>
  ELSE Ser(n \div 10) \o <<Digits[(n % 10) + 1]>>

\* An i64 is held as its sign and the decimal digits of its magnitude
\* (no leading zeros), which keeps the full 64-bit width.
I64MaxMag == <<"9","2","2","3","3","7","2","0","3","6","8","5","4","7","7","5","8","0","7">>

I64MinMag == <<"9","2","2","3","3","7","2","0","3","6","8","5","4","7","7","5","8","0","8">>

RECURSIVE StripZeros(_)
StripZeros(s) ==
  IF Len(s) > 1 /\ s[1] = "0" THEN StripZeros(Tail(s)) ELSE s

\* a > b for digit strings without leading zeros
RECURSIVE DecGT(_, _)
DecGT(a, b) ==
  IF Len(a) # Len(b) THEN Len(a) > Len(b)
  ELSE IF a = <<>> THEN FALSE
  ELSE IF a[1] # b[1] THEN DigitVal(a[1]) > DigitVal(b[1])
  ELSE DecGT(Tail(a), Tail(b))

I64(neg, mag) == [neg |-> neg /\ mag # <<"0">>, mag |-> mag]

\* <i64 as FromStr>::from_str: an optional "+" or "-", then digits; the
\* accumulation overflows beyond i64::MAX (or below i64::MIN when negative)
parse_i64(s) ==
  IF s = <<>> THEN Err(ParseNumError)
  ELSE IF s[1] \in {"+", "-"} /\ Len(s) = 1 THEN Err(ParseNumError)
  ELSE LET digits == IF s[1] \in {"+", "-"} THEN Tail(s) ELSE s
           neg == s[1] = "-"
       IN IF ~AllDigits(digits) THEN Err(ParseNumError)
          ELSE IF DecGT(StripZeros(digits), IF neg THEN I64MinMag ELSE I64MaxMag)
            THEN Err(ParseNumError)
          ELSE Ok(I64(neg, StripZeros(digits)))

\* <i64 as Display>::fmt
i64_to_string(v) == (IF v.neg THEN <<"-">> ELSE <<>>) \o v.mag

RECURSIVE DecVal(_, _)
DecVal(s, r) == IF s = <<>> THEN r ELSE DecVal(Tail(s), r * 10 + DigitVal(Head(s)))

RECURSIVE TrimZeros(_)
TrimZeros(s) ==
  IF Len(s) > 0 /\ s[Len(s)] = "0" THEN TrimZeros(SubSeq(s, 1, Len(s) - 1)) ELSE s

\* An f64 given by a short decimal literal is held exactly as sign,
\* mantissa and number of decimal places (trailing zeros dropped, so that
\* 1.50 = 1.5 and -0 = 0 as in f64's ==).
F64(neg, ip, fp) ==
  [neg |-> neg /\ DecVal(ip \o fp, 0) # 0,
   mant |-> DecVal(ip \o TrimZeros(fp), 0),
   scale |-> Len(TrimZeros(fp))]

\* <f64 as FromStr>::from_str on text without exponent or letters: an
\* optional sign, digits, an optional "." and digits, at least one digit
parse_f64(s) ==
  IF s = <<>> THEN Err(ParseNumError)
  ELSE LET body == IF s[1] \in {"+", "-"} THEN Tail(s) ELSE s
           neg == s[1] = "-"
           ip == IF Contains(body, ".") THEN SubSeq(body, 1, Find(body, ".") - 1) ELSE body
           fp == IF Contains(body, ".") THEN Tail_from(body, Find(body, ".") + 1) ELSE <<>>
       IN IF AllDigits(ip) /\ AllDigits(fp) /\ Len(ip) + Len(fp) > 0
            THEN Ok(F64(neg, ip, fp))
            ELSE Err(ParseNumError)

\* <bool as FromStr>::from_str and its Display
parse_bool(s) ==
  IF s = <<"t","r","u","e">> THEN Ok(TRUE)
  ELSE IF s = <<"f","a","l","s","e">> THEN Ok(FALSE)
  ELSE Err(ParseNumError)

bool_to_string(b) == IF b THEN <<"t","r","u","e">> ELSE <<"f","a","l","s","e">>

(***************************************************************************)
(* The value layer: trait Value and its implementations.                   *)
(***************************************************************************)
ColorTypes == {"ColorRGB", "ColorHSV"}

\* the types implementing Value
ValueTypes == {"i64", "f64", "bool", "String", "EnumValue"} \cup ColorTypes

\* Value::datatype of each implementation
datatype(T) ==
  CASE T = "i64" -> "Integer"
    [] T = "f64" -> "Float"
    [] T = "bool" -> "Boolean"
    [] T = "String" -> "String"
    [] T = "EnumValue" -> "Enum"
    [] T \in ColorTypes -> "Color"

\* the datatype tags this layer produces
Datatype == {datatype(T) : T \in ValueTypes}

\* enum ColorFormat
ColorFormat == {"RGB", "HSV"}

\* ColorFormat::as_str
as_str(cf) ==
  IF cf = "RGB" THEN <<"r", "g", "b">> ELSE <<"h", "s", "v">>

\* <ColorFormat as FromStr>::from_str
ColorFormat_from_str(s) ==
  IF s = <<"r", "g", "b">> THEN Ok("RGB")
  ELSE IF s = <<"h", "s", "v">> THEN Ok("HSV")
  ELSE Err(WrongFormat(s))

\* <ColorFormat as Display>::fmt
ColorFormat_to_string(cf) == as_str(cf)

\* Color::format of ColorRGB and ColorHSV
format(T) == IF T = "ColorRGB" THEN "RGB" ELSE "HSV"

RangeInclusive(start, end) == [start |-> start, end |-> end]

\* <i64 as Value>::parse_format
i64_parse_format(fmt) ==
  LET parts == splitn(2, fmt, ":") IN
  IF Len(parts) = 2 /\ parse_i64(parts[1]).kind = "Ok" /\ parse_i64(parts[2]).kind = "Ok"
    THEN Ok(RangeInclusive(parse_i64(parts[1]).val, parse_i64(parts[2]).val))
    ELSE Err(WrongFormat(fmt))

\* <f64 as Value>::parse_format
f64_parse_format(fmt) ==
  LET parts == splitn(2, fmt, ":") IN
  IF Len(parts) = 2 /\ parse_f64(parts[1]).kind = "Ok" /\ parse_f64(parts[2]).kind = "Ok"
    THEN Ok(RangeInclusive(parse_f64(parts[1]).val, parse_f64(parts[2]).val))
    ELSE Err(WrongFormat(fmt))

\* parse_format of an enum dropping the empty segments
EnumValue_parse_format_skip_empty(fmt) ==
  IF fmt = <<>> THEN Err(WrongFormat(<<>>))
  ELSE Ok(SelectSeq(split(fmt, ","), LAMBDA part : part # <<>>))

\* <EnumValue as Value>::parse_format
EnumValue_parse_format(fmt) ==
  IF fmt = <<>> THEN Err(WrongFormat(<<>>)) ELSE Ok(split(fmt, ","))

\* Value::parse_format of each implementation
parse_format(T, fmt) ==
  CASE T = "i64" -> i64_parse_format(fmt)
    [] T = "f64" -> f64_parse_format(fmt)
    [] T \in {"bool", "String"} -> Ok(Unit)
    [] T \in ColorTypes -> ColorFormat_from_str(fmt)
    [] T = "EnumValue" -> EnumValue_parse_format(fmt)

\* valid_for_format checking every format through the type's parse_format
valid_for_format_parsing(T, fmt) ==
  IF parse_format(T, fmt).kind = "Ok" THEN Ok(Unit) ELSE Err(WrongFormat(fmt))

\* valid_for_format of a colour accepting any valid colour tag
valid_for_format_any_tag(T, fmt) ==
  IF T \in ColorTypes
    THEN IF ColorFormat_from_str(fmt).kind = "Ok" THEN Ok(Unit) ELSE Err(WrongFormat(fmt))
    ELSE Ok(Unit)

\* Value::valid_for_format: the default accepts every format; only the
\* blanket implementation for Color types overrides it
valid_for_format(T, fmt) ==
  IF T \in ColorTypes
    THEN IF fmt = as_str(format(T)) THEN Ok(Unit) ELSE Err(WrongFormat(fmt))
    ELSE Ok(Unit)

\* valid_for checking the format before the datatype
valid_for_format_first(T, declared, fmt) ==
  IF fmt.some /\ T \in ColorTypes /\ fmt.v # as_str(format(T))
    THEN Err(WrongFormat(fmt.v))
  ELSE IF declared.some /\ declared.v # datatype(T)
    THEN Err(WrongDatatype(datatype(T), declared.v))
  ELSE Ok(Unit)

\* Value::valid_for (default method, never overridden); declared and fmt
\* are Options
valid_for(T, declared, fmt) ==
  IF declared.some /\ declared.v # datatype(T)
    THEN Err(WrongDatatype(datatype(T), declared.v))
  ELSE IF fmt.some THEN valid_for_format(T, fmt.v)
  ELSE Ok(Unit)

\* struct ColorRGB / ColorRGB::new
ColorRGB(r, g, b) == [r |-> r, g |-> g, b |-> b]

ColorRGB_new(r, g, b) == Ok(ColorRGB(r, g, b))

\* <ColorRGB as Display>::fmt
ColorRGB_to_string(c) == Ser(c.r) \o <<",">> \o Ser(c.g) \o <<",">> \o Ser(c.b)

\* from_str of ColorRGB taking the first three of any number of fields
ColorRGB_from_str_prefix(s) ==
  LET parts == split(s, ",") IN
  IF Len(parts) >= 3
    THEN LET r == parse_unsigned(parts[1], U8Max)
             g == parse_unsigned(parts[2], U8Max)
             b == parse_unsigned(parts[3], U8Max)
         IN IF r.kind = "Err" \/ g.kind = "Err" \/ b.kind = "Err"
              THEN Err(ParseColorError)
              ELSE Ok([r |-> r.val, g |-> g.val, b |-> b.val])
    ELSE Err(ParseColorError)

\* <ColorRGB as FromStr>::from_str
ColorRGB_from_str(s) ==
  LET parts == split(s, ",") IN
  IF Len(parts) = 3
    THEN LET r == parse_unsigned(parts[1], U8Max)
             g == parse_unsigned(parts[2], U8Max)
             b == parse_unsigned(parts[3], U8Max)
         IN IF r.kind = "Err" THEN Err(From_ParseIntError(r.err))
            ELSE IF g.kind = "Err" THEN Err(From_ParseIntError(g.err))
            ELSE IF b.kind = "Err" THEN Err(From_ParseIntError(b.err))
            ELSE Ok(ColorRGB(r.val, g.val, b.val))
    ELSE Err(ParseColorError)

HueMax == 360

SatMax == 100

ValMax == 100

\* struct ColorHSV: a struct literal with the public fields, unchecked
ColorHSV(h, s, v) == [h |-> h, s |-> s, v |-> v]

\* ColorHSV::new: the three assert!s, then the struct
ColorHSV_new(h, s, v) ==
  IF ~(h <= HueMax) THEN Panic
  ELSE IF ~(s <= SatMax) THEN Panic
  ELSE IF ~(v <= ValMax) THEN Panic
  ELSE Ok(ColorHSV(h, s, v))

\* <ColorHSV as Display>::fmt
ColorHSV_to_string(c) == Ser(c.h) \o <<",">> \o Ser(c.s) \o <<",">> \o Ser(c.v)

\* from_str of ColorHSV without the range check
ColorHSV_from_str_unchecked(text) ==
  LET parts == split(text, ",") IN
  IF Len(parts) = 3
    THEN LET h == parse_unsigned(parts[1], U16Max)
             s == parse_unsigned(parts[2], U8Max)
             v == parse_unsigned(parts[3], U8Max)
         IN IF h.kind = "Err" \/ s.kind = "Err" \/ v.kind = "Err"
              THEN Err(ParseColorError)
              ELSE Ok([h |-> h.val, s |-> s.val, v |-> v.val])
    ELSE Err(ParseColorError)

\* <ColorHSV as FromStr>::from_str
ColorHSV_from_str(text) ==
  LET parts == split(text, ",") IN
  IF Len(parts) = 3
    THEN LET h == parse_unsigned(parts[1], U16Max)
             s == parse_unsigned(parts[2], U8Max)
             v == parse_unsigned(parts[3], U8Max)
         IN IF h.kind = "Err" THEN Err(From_ParseIntError(h.err))
            ELSE IF s.kind = "Err" THEN Err(From_ParseIntError(s.err))
            ELSE IF v.kind = "Err" THEN Err(From_ParseIntError(v.err))
            ELSE IF h.val <= HueMax /\ s.val <= SatMax /\ v.val <= ValMax
              THEN Ok(ColorHSV(h.val, s.val, v.val))
            ELSE Err(ParseColorError)
    ELSE Err(ParseColorError)

\* struct EnumValue(String)
EnumValue(s) == [s |-> s]

\* EnumValue::new: assert!(!s.is_empty())
EnumValue_new(s) == IF s = <<>> THEN Panic ELSE Ok(EnumValue(s))

\* from_str of EnumValue reporting the empty string as a format error
EnumValue_from_str_wrong_kind(s) ==
  IF s = <<>> THEN Err(WrongFormat(s)) ELSE EnumValue_new(s)

\* from_str of EnumValue without the emptiness check
EnumValue_from_str_unguarded(s) == EnumValue_new(s)

\* <EnumValue as FromStr>::from_str
EnumValue_from_str(s) ==
  IF s = <<>> THEN Err(ParseEnumError) ELSE EnumValue_new(s)

\* <EnumValue as ToString>::to_string
EnumValue_to_string(e) == e.s

\* FromStr of each value type with a payload parser modelled here
from_str(T, s) ==
  CASE T = "i64" -> parse_i64(s)
    [] T = "bool" -> parse_bool(s)
    [] T = "String" -> Ok(s)
    [] T = "ColorRGB" -> ColorRGB_from_str(s)
    [] T = "ColorHSV" -> ColorHSV_from_str(s)
    [] T = "EnumValue" -> EnumValue_from_str(s)

\* ToString of each of those types
to_string(T, v) ==
  CASE T = "i64" -> i64_to_string(v)
    [] T = "bool" -> bool_to_string(v)
    [] T = "String" -> v
    [] T = "ColorRGB" -> ColorRGB_to_string(v)
    [] T = "ColorHSV" -> ColorHSV_to_string(v)
    [] T = "EnumValue" -> EnumValue_to_string(v)

(***************************************************************************)
(* Inputs.  A text is a sequence of tokens joined by a separator.  Texts   *)
(* with up to as many fields as the code expects take every token in every *)
(* field; longer texts, up to MaxFields fields, take a few tokens.         *)
(***************************************************************************)
Texts(tokens, sep, n) ==
  {Join(p, sep) : p \in UNION {[1..k -> tokens] : k \in 1..n}}

\* the number of fields of a colour payload: the slice pattern [_, _, _]
Channels == 3

\* the number of sides of a range format: the slice pattern [_, _]
Sides == 2

\* channel values passed to the constructors
U8Vals == {0, 100, 101, 255}

U16Vals == {0, 360, 361, 400, 65535}

\* fields of colour payloads: in-range and out-of-range numbers, the empty
\* field, a non-digit, signs, leading zeros
ColorTokens ==
  {Ser(n) : n \in {0, 100, 101, 255, 256, 360, 361, 400, 65536}}
    \cup {<<>>, <<"a">>, <<"+", "7">>, <<"-", "0">>, <<"0", "0", "7">>}

ColorTexts ==
  Texts(ColorTokens, ",", Channels) \cup Texts({<<"0">>, <<"7">>, <<>>}, ",", MaxFields)

\* sides of range formats: literals of both numeric types, a float-only
\* literal, the empty side, a non-digit
RangeTokens ==
  {<<"0">>, <<"1", "0">>, <<"-", "5">>, <<"+", "3">>, <<"1", ".", "5">>, <<>>, <<"a">>}

\* i64::MAX and the first literal beyond it
I64Tokens == RangeTokens \cup {I64MaxMag, I64MinMag}

\* literals without integer or without fractional digits
F64Tokens == RangeTokens \cup {<<".", "5">>, <<"5", ".">>}

SidesOf(T) ==
  IF T = "i64" THEN I64Tokens ELSE IF T = "f64" THEN F64Tokens ELSE RangeTokens

RangeFormats(T) ==
  Texts(SidesOf(T), ":", Sides) \cup Texts({<<"0">>, <<"1", "0">>, <<>>}, ":", MaxFields)

EnumTokens == {<<>>, <<"a">>, <<"b">>, <<" ", "a">>}

EnumFormats(n) == Texts(EnumTokens, ",", n)

ColorFormats ==
  {<<"r", "g", "b">>, <<"h", "s", "v">>, <<"R", "G", "B">>, <<"H", "s", "v">>,
   <<"r", "g">>, <<"r", "g", "b", " ">>, <<"a", "b", "c">>}

\* format strings handed to the operations of type T
Formats(T) == RangeFormats(T) \cup EnumFormats(MaxFields) \cup ColorFormats

ScalarTexts ==
  I64Tokens \cup EnumFormats(2)
    \cup {<<"t","r","u","e">>, <<"f","a","l","s","e">>, <<"T","r","u","e">>}

PayloadTypes == ValueTypes \ {"f64"}

PayloadTexts(T) == IF T \in ColorTypes THEN ColorTexts ELSE ScalarTexts

\* values of the primitive types a caller may hold
NativeValues(T) ==
  CASE T = "i64" -> {I64(FALSE, <<"0">>), I64(TRUE, <<"5">>), I64(FALSE, <<"1", "0">>),
                     I64(FALSE, I64MaxMag), I64(TRUE, I64MinMag)}
    [] T = "bool" -> {TRUE, FALSE}
    [] T = "String" -> EnumTokens

Declared == {None} \cup {Some(d) : d \in Datatype}

NoValue == [ty |-> "-"]

Value(T, v) == [ty |-> T, v |-> v]

\* the value a call leaves in the caller's hands
Kept(T, r) == IF r.kind = "Ok" THEN Value(T, r.val) ELSE NoValue

(***************************************************************************)
(* The state machine: one caller's use of the layer.                       *)
(***************************************************************************)
Init ==
  /\ op = "idle"
  /\ ty = "-"
  /\ arg = <<>>
  /\ res = Ok(Unit)
  /\ held = NoValue
  /\ rt = FALSE

\* T::valid_for(declared, &fmt)
Call_valid_for ==
  /\ op = "idle"
  /\ \E T \in ValueTypes, declared \in Declared :
       \E fmt \in {None} \cup {Some(x) : x \in Formats(T)} :
         /\ op' = "valid_for"
         /\ ty' = T
         /\ arg' = <<declared, fmt>>
         /\ res' = valid_for(T, declared, fmt)
  /\ UNCHANGED <<held, rt>>

\* T::valid_for_format(fmt)
Call_valid_for_format ==
  /\ op = "idle"
  /\ \E T \in ValueTypes :
       \E fmt \in Formats(T) :
         /\ op' = "valid_for_format"
         /\ ty' = T
         /\ arg' = <<fmt>>
         /\ res' = valid_for_format(T, fmt)
  /\ UNCHANGED <<held, rt>>

\* T::parse_format(fmt)
Call_parse_format ==
  /\ op = "idle"
  /\ \E T \in ValueTypes :
       \E fmt \in Formats(T) :
         /\ op' = "parse_format"
         /\ ty' = T
         /\ arg' = <<fmt>>
         /\ res' = parse_format(T, fmt)
  /\ UNCHANGED <<held, rt>>

\* ColorFormat::from_str(s), i.e. s.parse::<ColorFormat>()
Call_ColorFormat_from_str ==
  /\ op = "idle"
  /\ \E s \in ColorFormats :
       /\ op' = "from_str"
       /\ ty' = "ColorFormat"
       /\ arg' = <<s>>
       /\ res' = ColorFormat_from_str(s)
  /\ UNCHANGED <<held, rt>>

\* ColorRGB::new(r, g, b)
Call_ColorRGB_new ==
  /\ op = "idle"
  /\ \E r \in U8Vals, g \in U8Vals, b \in U8Vals :
       /\ op' = "new"
       /\ ty' = "ColorRGB"
       /\ arg' = <<r, g, b>>
       /\ res' = ColorRGB_new(r, g, b)
       /\ held' = Kept("ColorRGB", ColorRGB_new(r, g, b))
  /\ UNCHANGED rt

\* ColorHSV::new(h, s, v)
Call_ColorHSV_new ==
  /\ op = "idle"
  /\ \E h \in U16Vals, s \in U8Vals, v \in U8Vals :
       /\ op' = "new"
       /\ ty' = "ColorHSV"
       /\ arg' = <<h, s, v>>
       /\ res' = ColorHSV_new(h, s, v)
       /\ held' = Kept("ColorHSV", ColorHSV_new(h, s, v))
  /\ UNCHANGED rt

\* ColorHSV { h, s, v }: the fields are public, no check runs
Literal_ColorHSV ==
  /\ op = "idle"
  /\ \E h \in U16Vals, s \in U8Vals, v \in U8Vals :
       /\ op' = "literal"
       /\ ty' = "ColorHSV"
       /\ arg' = <<h, s, v>>
       /\ res' = Ok(ColorHSV(h, s, v))
       /\ held' = Value("ColorHSV", ColorHSV(h, s, v))
  /\ UNCHANGED rt

\* EnumValue::new(s)
Call_EnumValue_new ==
  /\ op = "idle"
  /\ \E s \in EnumFormats(2) :
       /\ op' = "new"
       /\ ty' = "EnumValue"
       /\ arg' = <<s>>
       /\ res' = EnumValue_new(s)
       /\ held' = Kept("EnumValue", EnumValue_new(s))
  /\ UNCHANGED rt

\* a value of a primitive type (i64, bool, String) the caller has
Native ==
  /\ op = "idle"
  /\ \E T \in {"i64", "bool", "String"} :
       \E v \in NativeValues(T) :
         /\ op' = "literal"
         /\ ty' = T
         /\ arg' = <<v>>
         /\ res' = Ok(v)
         /\ held' = Value(T, v)
  /\ UNCHANGED rt

\* s.parse::<T>() on a payload received from outside
Call_from_str ==
  /\ op = "idle"
  /\ \E T \in PayloadTypes :
       \E s \in PayloadTexts(T) :
         /\ op' = "from_str"
         /\ ty' = T
         /\ arg' = <<s>>
         /\ res' = from_str(T, s)
         /\ held' = Kept(T, from_str(T, s))
  /\ UNCHANGED rt

\* held.to_string()
Call_to_string ==
  /\ op \in {"new", "literal", "from_str"}
  /\ held # NoValue
  /\ op' = "to_string"
  /\ ty' = held.ty
  /\ arg' = <<held.v>>
  /\ res' = Ok(to_string(held.ty, held.v))
  /\ UNCHANGED <<held, rt>>

\* parsing the text just serialised back as the type of the held value
Call_from_str_rendered ==
  /\ op = "to_string"
  /\ op' = "from_str"
  /\ ty' = held.ty
  /\ arg' = <<res.val>>
  /\ res' = from_str(held.ty, res.val)
  /\ rt' = TRUE
  /\ UNCHANGED held

Next ==
  \/ Call_valid_for
  \/ Call_valid_for_format
  \/ Call_parse_format
  \/ Call_ColorFormat_from_str
  \/ Call_ColorRGB_new
  \/ Call_ColorHSV_new
  \/ Literal_ColorHSV
  \/ Call_EnumValue_new
  \/ Native
  \/ Call_from_str
  \/ Call_to_string
  \/ Call_from_str_rendered

Spec == Init /\ [][Next]_vars

(***************************************************************************)
(* Properties.                                                             *)
(***************************************************************************)
\* the positions of character c in text t
Positions(t, c) == {i \in 1..Len(t) : t[i] = c}

Lowest(S) == CHOOSE i \in S : \A j \in S : i <= j

Highest(S) == CHOOSE i \in S : \A j \in S : i >= j

\* the digits of a token after an optional "+"
Unsigned(tok) == IF tok # <<>> /\ tok[1] = "+" THEN Tail(tok) ELSE tok

\* the positional value of a digit string
RECURSIVE Pow10(_)
Pow10(n) == IF n = 0 THEN 1 ELSE 10 * Pow10(n - 1)

RECURSIVE Positional(_)
Positional(d) ==
  IF d = <<>> THEN 0
  ELSE DigitVal(d[1]) * Pow10(Len(d) - 1) + Positional(Tail(d))

\* tok is a decimal literal of an unsigned integer no larger than max (a
\* literal of more than six significant digits exceeds every width used)
IsUnsignedLiteral(tok, max) ==
  /\ Unsigned(tok) # <<>>
  /\ AllDigits(Unsigned(tok))
  /\ Len(StripZeros(Unsigned(tok))) <= 6
  /\ Positional(StripZeros(Unsigned(tok))) <= max

LiteralValue(tok) == Positional(StripZeros(Unsigned(tok)))

\* C1: valid_for of every value type fails with WrongDatatype{expected: the
\* type's datatype, actual: the declared one} when a declared datatype is
\* present and differs, whatever the format; otherwise it returns what
\* valid_for_format returns on a present format, and succeeds without one.
C1_ValidForDefault ==
  op = "valid_for" =>
    LET declared == arg[1]
        fmt == arg[2]
    IN /\ IF declared.some /\ declared.v # datatype(ty)
            THEN res = Err(WrongDatatype(datatype(ty), declared.v))
          ELSE IF fmt.some THEN res = valid_for_format(ty, fmt.v)
          ELSE res = Ok(Unit)
       /\ (ty = "i64" /\ declared = Some("Float") /\ fmt = None)
            => res = Err(WrongDatatype("Integer", "Float"))
       /\ (ty = "i64" /\ declared = None /\ fmt = Some(<<"0", ":", "1", "0">>))
            => res = Ok(Unit)

\* a mismatched datatype and a format the type would reject: the datatype
\* error wins
C1_Witness ==
  /\ op = "valid_for"
  /\ ty = "ColorRGB"
  /\ arg = <<Some("Float"), Some(<<"h", "s", "v">>)>>
  /\ res = Err(WrongDatatype("Color", "Float"))

ConstrainedTypes == {"i64", "f64", "EnumValue"} \cup ColorTypes

\* the format argument of a validity check (valid_for with no declared
\* datatype and a format, or valid_for_format)
CheckedFormat ==
  IF op = "valid_for_format" THEN Some(arg[1])
  ELSE IF op = "valid_for" /\ ~arg[1].some THEN arg[2]
  ELSE None

\* C2 as stated: for integer, float, enum and colour, a format that the
\* type's parse_format rejects is rejected with WrongFormat by
\* valid_for_format and by valid_for(None, Some(format)).
C2_Original ==
  (CheckedFormat.some /\ ty \in ConstrainedTypes
     /\ parse_format(ty, CheckedFormat.v).kind = "Err")
    => res = Err(WrongFormat(CheckedFormat.v))

\* C2 amended: only the colour types override valid_for_format; for every
\* other type (boolean, string, integer, float, enum) valid_for_format and
\* valid_for(None, Some(format)) succeed on every format, and for a colour
\* type a format its parse_format rejects is rejected with WrongFormat.
C2_OnlyColorsOverride ==
  CheckedFormat.some =>
    /\ ty \notin ColorTypes => res = Ok(Unit)
    /\ (ty \in ColorTypes /\ parse_format(ty, CheckedFormat.v).kind = "Err")
         => res = Err(WrongFormat(CheckedFormat.v))

\* "abc" is no range, yet valid_for_format of integer accepts it
C2_Witness ==
  /\ op = "valid_for_format"
  /\ ty = "i64"
  /\ arg = <<(<<"a", "b", "c">>)>>
  /\ parse_format("i64", arg[1]) = Err(WrongFormat(arg[1]))
  /\ res = Ok(Unit)

\* the lowercase tag of a colour type
TagOf(T) == IF T = "ColorRGB" THEN <<"r", "g", "b">> ELSE <<"h", "s", "v">>

\* C3: valid_for_format of a colour type succeeds iff the format is exactly
\* the type's own lowercase tag, and otherwise fails with WrongFormat
\* carrying the format; parse_format of either colour type yields RGB for
\* "rgb", HSV for "hsv" and WrongFormat otherwise, whichever type asks.
C3_ColorFormat ==
  /\ (op = "valid_for_format" /\ ty \in ColorTypes) =>
       /\ res = Ok(Unit) <=> arg[1] = TagOf(ty)
       /\ arg[1] # TagOf(ty) => res = Err(WrongFormat(arg[1]))
  /\ (op = "parse_format" /\ ty \in ColorTypes) =>
       res = (IF arg[1] = <<"r", "g", "b">> THEN Ok("RGB")
              ELSE IF arg[1] = <<"h", "s", "v">> THEN Ok("HSV")
              ELSE Err(WrongFormat(arg[1])))

\* ColorRGB refuses the valid tag of the other colour type
C3_Witness ==
  /\ op = "valid_for_format"
  /\ ty = "ColorRGB"
  /\ arg = <<(<<"h", "s", "v">>)>>
  /\ parse_format("ColorRGB", arg[1]) = Ok("HSV")
  /\ res = Err(WrongFormat(<<"h", "s", "v">>))

\* the literal parser of a numeric type
Literal(T, tok) == IF T = "i64" THEN parse_i64(tok) ELSE parse_f64(tok)

\* C4: parse_format of integer and float succeeds iff the format holds
\* exactly one colon with a literal of the type on each side, and then
\* yields the range from the first to the second literal, in that order and
\* without comparing them; every other format fails with WrongFormat
\* carrying the format.
C4_RangeFormat ==
  (op = "parse_format" /\ ty \in {"i64", "f64"}) =>
    LET f == arg[1]
        colons == Positions(f, ":")
        left == SubSeq(f, 1, Lowest(colons) - 1)
        right == SubSeq(f, Lowest(colons) + 1, Len(f))
    IN /\ IF /\ Cardinality(colons) = 1
             /\ Literal(ty, left).kind = "Ok"
             /\ Literal(ty, right).kind = "Ok"
            THEN res = Ok([start |-> Literal(ty, left).val, end |-> Literal(ty, right).val])
            ELSE res = Err(WrongFormat(f))
       /\ (ty = "i64" /\ f = <<"1", "0", ":", "0">>)
            => res = Ok([start |-> [neg |-> FALSE, mag |-> <<"1", "0">>],
                         end |-> [neg |-> FALSE, mag |-> <<"0">>]])

\* a format with two colons whose first two fields are literals fails
C4_Witness ==
  /\ op = "parse_format"
  /\ ty = "i64"
  /\ arg = <<(<<"1", "0", ":", "0", ":", "0">>)>>
  /\ res = Err(WrongFormat(arg[1]))

\* C5: parsing text as ColorHSV succeeds iff the text holds exactly two
\* commas, the three fields are literals of a u16, a u8 and a u8, and
\* h <= 360, s <= 100, v <= 100; the result is then ColorHSV{h, s, v}.
\* Every other text fails with the one ParseColorError.
C5_HSVParse ==
  (op = "from_str" /\ ty = "ColorHSV") =>
    LET t == arg[1]
        commas == Positions(t, ",")
        a == SubSeq(t, 1, Lowest(commas) - 1)
        b == SubSeq(t, Lowest(commas) + 1, Highest(commas) - 1)
        c == SubSeq(t, Highest(commas) + 1, Len(t))
    IN IF /\ Cardinality(commas) = 2
          /\ IsUnsignedLiteral(a, 65535)
          /\ IsUnsignedLiteral(b, 255)
          /\ IsUnsignedLiteral(c, 255)
          /\ LiteralValue(a) <= 360
          /\ LiteralValue(b) <= 100
          /\ LiteralValue(c) <= 100
         THEN res = Ok([h |-> LiteralValue(a), s |-> LiteralValue(b), v |-> LiteralValue(c)])
         ELSE res = Err(ParseColorError)

\* h = 400 is a valid u16 but no hue
C5_Witness ==
  /\ op = "from_str"
  /\ ty = "ColorHSV"
  /\ arg = <<(<<"4", "0", "0", ",", "1", "0", "0", ",", "1", "0", "0">>)>>
  /\ res = Err(ParseColorError)

\* C6: parsing text as ColorRGB succeeds iff the text holds exactly two
\* commas and each of the three fields is a literal of an integer in
\* [0, 255]; the result then has r, g, b equal to the fields in order.
\* Every other text fails with ParseColorError.
C6_RGBParse ==
  (op = "from_str" /\ ty = "ColorRGB") =>
    LET t == arg[1]
        commas == Positions(t, ",")
        a == SubSeq(t, 1, Lowest(commas) - 1)
        b == SubSeq(t, Lowest(commas) + 1, Highest(commas) - 1)
        c == SubSeq(t, Highest(commas) + 1, Len(t))
    IN IF /\ Cardinality(commas) = 2
          /\ IsUnsignedLiteral(a, 255)
          /\ IsUnsignedLiteral(b, 255)
          /\ IsUnsignedLiteral(c, 255)
         THEN res = Ok([r |-> LiteralValue(a), g |-> LiteralValue(b), b |-> LiteralValue(c)])
         ELSE res = Err(ParseColorError)

\* three in-range fields parse to the channels in order
C6_Witness ==
  /\ op = "from_str"
  /\ ty = "ColorRGB"
  /\ arg = <<(<<"0", ",", "1", "0", "0", ",", "2", "5", "5">>)>>
  /\ res = Ok([r |-> 0, g |-> 100, b |-> 255])

\* C7: parse_format of an enum fails with WrongFormat iff the format is
\* empty; otherwise it yields the comma-free segments of the format in
\* order, empty ones included, one more than there are commas.
C7_EnumFormat ==
  (op = "parse_format" /\ ty = "EnumValue") =>
    LET f == arg[1] IN
    /\ res.kind = "Err" <=> f = <<>>
    /\ f = <<>> => res = Err(WrongFormat(<<>>))
    /\ f # <<>> =>
         /\ Len(res.val) = Cardinality(Positions(f, ",")) + 1
         /\ \A k \in 1..Len(res.val) : Positions(res.val[k], ",") = {}
         /\ Join(res.val, ",") = f

\* an empty segment between two commas is kept
C7_Witness ==
  /\ op = "parse_format"
  /\ ty = "EnumValue"
  /\ arg = <<(<<"a", ",", ",", "b">>)>>
  /\ res = Ok(<<(<<"a">>), <<>>, (<<"b">>)>>)

\* C8: for every value x constructible through the public API, parsing the
\* serialised text of x succeeds and yields x; an enum serialises to its
\* own string and a colour to its three fields joined by commas.
C8_RoundTrip ==
  /\ (op = "from_str" /\ rt) => res = Ok(held.v)
  /\ (op = "to_string" /\ ty = "EnumValue") => res.val = held.v.s
  /\ (op = "to_string" /\ ty \in ColorTypes) =>
       /\ Cardinality(Positions(res.val, ",")) = 2
       /\ Positions(res.val, " ") = {}

ErrorKinds ==
  {"Unknown", "WrongDatatype", "WrongFormat", "ParseFailed",
   "ParseColorError", "ParseEnumError", "ParseNumError"}

\* the payload parsers of this file
ParserTypes == ColorTypes \cup {"EnumValue"}

\* C9 as stated: WrongDatatype and WrongFormat come only from valid_for
\* and valid_for_format; the payload parsers return only ParseColorError
\* and ParseEnumError; no operation returns Unknown.
C9_Original ==
  res.kind = "Err" =>
    /\ res.err.kind \in {"WrongDatatype", "WrongFormat"}
         => op \in {"valid_for", "valid_for_format"}
    /\ (op = "from_str" /\ ty \in ParserTypes)
         => res.err.kind \in {"ParseColorError", "ParseEnumError"}
    /\ res.err.kind # "Unknown"

\* C9 amended: WrongDatatype comes only from valid_for; WrongFormat comes
\* only from valid_for, valid_for_format and the format parsers
\* (parse_format, ColorFormat::from_str), never from a payload parser; the
\* payload parsers return only ParseColorError (colours) and ParseEnumError
\* (enum); no operation returns Unknown; a failing call returns one kind.
C9_ErrorPaths ==
  res.kind = "Err" =>
    /\ res.err.kind \in ErrorKinds
    /\ res.err.kind = "WrongDatatype" => op = "valid_for"
    /\ res.err.kind = "WrongFormat"
         => \/ op \in {"valid_for", "valid_for_format", "parse_format"}
            \/ op = "from_str" /\ ty = "ColorFormat"
    /\ (op = "from_str" /\ ty \in ColorTypes) => res.err.kind = "ParseColorError"
    /\ (op = "from_str" /\ ty = "EnumValue") => res.err.kind = "ParseEnumError"
    /\ res.err.kind # "Unknown"

\* the empty payload fails to parse as an enum with ParseEnumError
C9_Witness ==
  /\ op = "from_str"
  /\ ty = "EnumValue"
  /\ arg = <<(<<>>)>>
  /\ res = Err(ParseEnumError)

\* C10: the parsers of EnumValue and ColorHSV never panic; an EnumValue
\* returned by the parser or by new wraps a non-empty string; a ColorHSV
\* returned by the parser or by new has h <= 360, s <= 100, v <= 100; only
\* new with an empty string or an out-of-range component panics.
C10_ParseNeverAborts ==
  /\ (op = "from_str" /\ ty \in {"EnumValue", "ColorHSV"}) => res.kind \in {"Ok", "Err"}
  /\ (op \in {"from_str", "new"} /\ ty = "EnumValue" /\ res.kind = "Ok")
       => Len(res.val.s) > 0
  /\ (op \in {"from_str", "new"} /\ ty = "ColorHSV" /\ res.kind = "Ok")
       => res.val.h <= 360 /\ res.val.s <= 100 /\ res.val.v <= 100
  /\ res.kind = "Panic" =>
       /\ op = "new"
       /\ \/ ty = "EnumValue" /\ arg[1] = <<>>
          \/ ty = "ColorHSV" /\ (arg[1] > 360 \/ arg[2] > 100 \/ arg[3] > 100)

\* parsing s = 101 returns an error where ColorHSV::new would panic
C10_Witness ==
  /\ op = "from_str"
  /\ ty = "ColorHSV"
  /\ arg = <<(<<"0", ",", "1", "0", "1", ",", "0">>)>>
  /\ ColorHSV_new(0, 101, 0) = Panic
  /\ res = Err(ParseColorError)

====
